---- MODULE Spec2Model ----
(***************************************************************************)
(* Path-scoped configuration engine of pr_agent.path_config:               *)
(*   ConfigDiscovery (config_discovery.py), ConfigMerger (config_merger.py)*)
(*   and ConfigResolver (config_resolver.py).                              *)
(*                                                                         *)
(* Paths are sequences of path segments (pathlib's parts without the       *)
(* anchor); the filesystem root is <<>>.  TOML values are tagged records.  *)
(***************************************************************************)
EXTENDS Integers, Sequences, FiniteSets, TLC

VARIABLES
    fs,                  \* disk: config file path -> name of the document stored there ("none": no file)
    enable_path_config,  \* ConfigResolver.enable_path_config
    d_cache,             \* ConfigDiscovery._cache: cache key -> list of ConfigFile
    resolution_cache,    \* ConfigResolver._resolution_cache: file path -> ResolvedConfig
    next_id,             \* identity of the next ResolvedConfig object constructed
    global_store,        \* get_settings(): lower-cased dotted path -> value ("None": unset)
    writes,              \* number of changes made to the disk so far
    op,                  \* the last call made and its arguments
    ret,                 \* what the last call returned (or raised)
    probed,              \* directories handed to _find_config_at_path by the last discovery
    discovered,          \* what discover_configs returned to the last resolver call
    last_returned        \* file path -> what resolve returned for it since the last
                         \* clear_cache or change of the disk

vars == <<fs, enable_path_config, d_cache, resolution_cache, next_id,
          global_store, writes, op, ret, probed, discovered, last_returned>>

(***************************************************************************)
(* Bounds of the model.                                                    *)
(***************************************************************************)
MaxConfigFiles == 2    \* config files present in a discovery layout
MaxCache == 2          \* entries a discovery cache may hold in the discovery runs
MaxWrites == 1         \* changes to the disk during a resolver run
MaxObjs == 2           \* ResolvedConfig objects constructed during a resolver run

(***************************************************************************)
(* Paths.                                                                  *)
(***************************************************************************)
repo_root == <<"r">>

max_depth == 2

CONFIG_FILENAMES == <<".pr_agent.toml", "pr_agent.toml", ".pr-agent.toml">>

\* Directories that exist on disk: the repository /r and, beside it, /x.
RealDirs ==
    { <<>>, <<"r">>, <<"r", "src">>, <<"r", "src", "backend">>,
      <<"r", "src", "backend", "api">>, <<"r", "src", "backend", "api", "v1">>,
      <<"r", "tests">>, <<"x">> }

\* Regular (non-config) files that exist on disk.
RegularFiles ==
    { <<"r", "src", "main.py">>, <<"r", "src", "backend", "main.py">>,
      <<"r", "src", "backend", "api", "v1", "h.py">>,
      <<"r", "tests", "test_main.py">>, <<"r", "README.md">>, <<"x", "f.py">> }

\* Every place a config file can be stored.
ConfigSlots ==
    { Append(d, CONFIG_FILENAMES[i]) : d \in RealDirs, i \in 1..Len(CONFIG_FILENAMES) }

NoPath == <<"ENOENT">>

\* PurePath.parent: lexical, the filesystem root is its own parent.
Parent(p) == IF Len(p) = 0 THEN p ELSE SubSeq(p, 1, Len(p) - 1)

\* PurePath.relative_to succeeds: `base` is a prefix of `p`, part by part.
IsRelativeTo(p, base) ==
    /\ Len(base) <= Len(p)
    /\ SubSeq(p, 1, Len(base)) = base

\* PurePath.relative_to(base), where it succeeds.
RelativeTo(p, base) == SubSeq(p, Len(base) + 1, Len(p))

\* What the operating system makes of a path: ".." steps up from a directory
\* that exists, a name steps down, and every intermediate step is a directory.
RECURSIVE ResolveFrom(_, _)
ResolveFrom(acc, rest) ==
    IF acc = NoPath \/ Len(rest) = 0 THEN acc
    ELSE IF Head(rest) = ".."
         THEN ResolveFrom(Parent(acc), Tail(rest))
         ELSE LET down == Append(acc, Head(rest)) IN
              IF Len(rest) > 1 /\ down \notin RealDirs
              THEN NoPath
              ELSE ResolveFrom(down, Tail(rest))

RealPath(p) == ResolveFrom(<<>>, p)

\* Path.is_file() against the disk `disk`.
IsFile(disk, p) ==
    LET real == RealPath(p) IN
    /\ real # NoPath
    /\ \/ real \in RegularFiles
       \/ real \in ConfigSlots /\ disk[real] # "none"

(***************************************************************************)
(* Changed-file paths as the caller writes them, in the order of their     *)
(* strings (sorted() compares the strings).                                *)
(***************************************************************************)
PathTable ==
    << [str |-> "../x/f.py",           abs |-> FALSE, segs |-> <<"..", "x", "f.py">>],
       [str |-> "/x/f.py",             abs |-> TRUE,  segs |-> <<"x", "f.py">>],
       [str |-> "src/../README.md",    abs |-> FALSE, segs |-> <<"src", "..", "README.md">>],
       [str |-> "src/backend/api/v1/h.py", abs |-> FALSE,
        segs |-> <<"src", "backend", "api", "v1", "h.py">>],
       [str |-> "src/backend/api/v1/new.py", abs |-> FALSE,
        segs |-> <<"src", "backend", "api", "v1", "new.py">>],
       [str |-> "src/backend/main.py", abs |-> FALSE, segs |-> <<"src", "backend", "main.py">>],
       [str |-> "src/main.py",         abs |-> FALSE, segs |-> <<"src", "main.py">>],
       [str |-> "tests/test_main.py",  abs |-> FALSE, segs |-> <<"tests", "test_main.py">>] >>

Rank(s) == CHOOSE i \in 1..Len(PathTable) : PathTable[i].str = s

\* repo_root / file_path: an absolute right-hand side replaces the left.
JoinRoot(s) ==
    LET e == PathTable[Rank(s)] IN
    IF e.abs THEN e.segs ELSE repo_root \o e.segs

(***************************************************************************)
(* ConfigDiscovery.                                                        *)
(***************************************************************************)
ConfigFile(path, depth, relative_path) ==
    [path |-> path, depth |-> depth, relative_path |-> relative_path]

NoConfig == [path |-> NoPath, depth |-> 0, relative_path |-> NoPath]

\* _is_within_repo: relative_to(repo_root) does not raise.
IsWithinRepo(p) == IsRelativeTo(p, repo_root)

\* _find_config_at_path, trying the names from position i on.
RECURSIVE FindConfigFrom(_, _, _)
FindConfigFrom(disk, directory, i) ==
    IF i > Len(CONFIG_FILENAMES) THEN NoConfig
    ELSE LET config_path == Append(directory, CONFIG_FILENAMES[i]) IN
         IF IsFile(disk, config_path) /\ IsRelativeTo(config_path, repo_root)
         THEN LET relative_path == RelativeTo(config_path, repo_root) IN
              ConfigFile(config_path, Len(Parent(relative_path)), relative_path)
         ELSE FindConfigFrom(disk, directory, i + 1)

FindConfigAtPath(disk, directory) == FindConfigFrom(disk, directory, 1)

\* Mutant of the walk: no limit on the number of levels.
RECURSIVE WalkDirs_NoLimit(_, _)
WalkDirs_NoLimit(current_dir, depth) ==
    IF ~IsRelativeTo(current_dir, repo_root) THEN <<>>
    ELSE IF current_dir = repo_root THEN <<current_dir>>
    ELSE <<current_dir>> \o WalkDirs_NoLimit(Parent(current_dir), depth + 1)

\* The directories the loop of _walk_up_from_file hands to _find_config_at_path,
\* in the order it visits them.
RECURSIVE WalkDirs(_, _)
WalkDirs(current_dir, depth) ==
    IF depth > max_depth THEN <<>>
    ELSE IF ~IsWithinRepo(current_dir) THEN <<>>
    ELSE IF current_dir = repo_root THEN <<current_dir>>
    ELSE IF Parent(current_dir) = current_dir THEN <<current_dir>>
    ELSE <<current_dir>> \o WalkDirs(Parent(current_dir), depth + 1)

\* Where _walk_up_from_file starts: the parent of a file that exists, the
\* path itself otherwise.
WalkStart(disk, file_path) ==
    IF IsFile(disk, file_path) THEN Parent(file_path) ELSE file_path

WalkProbes(disk, file_path) == WalkDirs(WalkStart(disk, file_path), 0)

Range(s) == { s[i] : i \in DOMAIN s }

\* _walk_up_from_file: the configs found in the directories visited.
WalkUpFromFile(disk, file_path) ==
    { FindConfigAtPath(disk, d) : d \in Range(WalkProbes(disk, file_path)) } \ {NoConfig}

\* The set _discover_configs_uncached collects before sorting.
DiscoveredSet(disk, changed_files) ==
    ({FindConfigAtPath(disk, repo_root)} \ {NoConfig})
      \cup UNION { WalkUpFromFile(disk, JoinRoot(changed_files[i])) : i \in DOMAIN changed_files }

\* Directories probed by _discover_configs_uncached.
ProbedDirs(disk, changed_files) ==
    {repo_root}
      \cup UNION { Range(WalkProbes(disk, JoinRoot(changed_files[i]))) : i \in DOMAIN changed_files }

IsSortedByDepth(s) == \A i, j \in DOMAIN s : i < j => s[i].depth <= s[j].depth

\* Mutant of the sort: the set comes out in any order.
SortedByDepth_AnyOrder(S) ==
    { s \in [1..Cardinality(S) -> S] : Range(s) = S }

\* sorted(set, key=depth): a stable sort of a set, whose iteration order is
\* not fixed; any arrangement in non-decreasing depth can come out.
SortedByDepth(S) ==
    { s \in [1..Cardinality(S) -> S] : Range(s) = S /\ IsSortedByDepth(s) }

\* _generate_cache_key: md5 (taken as injective) of the sorted paths joined;
\* the key is the sorted list itself.
RECURSIVE InsertSorted(_, _)
InsertSorted(s, x) ==
    IF Len(s) = 0 THEN <<x>>
    ELSE IF Rank(x) <= Rank(Head(s)) THEN <<x>> \o s
    ELSE <<Head(s)>> \o InsertSorted(Tail(s), x)

RECURSIVE SortPaths(_)
SortPaths(files) ==
    IF Len(files) = 0 THEN <<>>
    ELSE InsertSorted(SortPaths(Tail(files)), Head(files))

GenerateCacheKey(changed_files) == SortPaths(changed_files)

\* dict[key] = value.
Put(dict, key, value) == (key :> value) @@ dict

\* _discover_configs_uncached: the lists it can return.
DiscoverConfigsUncached(disk, changed_files) ==
    SortedByDepth(DiscoveredSet(disk, changed_files))

\* discover_configs with the cache `cache`: what it can return, each with
\* the cache it leaves and the directories it probed.
DiscoverConfigs(disk, cache, changed_files) ==
    LET cache_key == GenerateCacheKey(changed_files) IN
    IF cache_key \in DOMAIN cache
    THEN { [configs |-> cache[cache_key], cache |-> cache, probed |-> {}, cached |-> TRUE] }
    ELSE { [configs |-> configs, cache |-> Put(cache, cache_key, configs),
            probed |-> ProbedDirs(disk, changed_files), cached |-> FALSE]
           : configs \in DiscoverConfigsUncached(disk, changed_files) }

(***************************************************************************)
(* TOML documents.  A table is a function from its keys to values; a value *)
(* is a scalar, a list of scalars or a table.                              *)
(***************************************************************************)
S(x) == [t |-> "scalar", s |-> x]

L(xs) == [t |-> "list", l |-> xs]

D(f) == [t |-> "dict", d |-> f]

EmptyDict == [k \in {} |-> S("")]

\* The documents a config file can hold, by name.  "malformed" is text that
\* tomllib cannot parse; "none" is the absence of the file.
Parse(name) ==
    CASE name = "rootAB" ->
           ("pr_reviewer" :> D(("extra_instructions" :> S("root"))
                               @@ ("num_max_findings" :> S("3"))))
      [] name = "childB" ->
           ("pr_reviewer" :> D("extra_instructions" :> S("child")))
      [] name = "childN" ->
           ("pr_reviewer" :> D("num_max_findings" :> S("7")))
      [] name = "model" ->
           ("config" :> D("model" :> S("x")))
      [] name = "include" ->
           ("dangerous" :> D("dynaconf_include" :> L(<<"other_file.toml">>)))
      [] name = "model_include" ->
           ("config" :> D("model" :> S("x")))
           @@ ("dangerous" :> D("dynaconf_include" :> L(<<"other_file.toml">>)))
      [] name = "childExt" ->
           ("pr_reviewer" :> D(("_merge_strategy" :> S("extend"))
                               @@ ("extra_instructions" :> S("child"))))
      [] name = "rootNest" ->
           ("pr_reviewer" :> D(("tags" :> L(<<"b">>))
                               @@ ("sub" :> D("y" :> S("2")))))
      [] name = "tagsExt" ->
           ("pr_reviewer" :> D(("_merge_strategy" :> S("extend"))
                               @@ ("tags" :> L(<<"c">>))))
      [] name = "tagsInh" ->
           ("pr_reviewer" :> D(("_merge_strategy" :> S("inherit"))
                               @@ ("tags" :> L(<<"c">>))))
      [] name = "bogus" ->
           ("pr_reviewer" :> D(("_merge_strategy" :> S("invalid_strategy"))
                               @@ ("extra_instructions" :> S("test"))))
      [] name = "configOther" ->
           ("config" :> D("other" :> S("2")))
      [] name = "configScalar" ->
           ("config" :> S("5"))
      [] name = "configEmptyModel" ->
           ("config" :> D("model" :> D(EmptyDict)))
      [] name = "upperN" ->
           ("PR_REVIEWER" :> D("NUM_MAX_FINDINGS" :> S("7")))
      [] name = "custom" ->
           ("custom" :> D("setting" :> S("1")))
      [] OTHER -> EmptyDict

DocNames == {"rootAB", "childB", "childN", "childExt", "rootNest",
             "tagsExt", "tagsInh", "bogus",
             "model", "include", "model_include",
             "custom", "malformed"}

(***************************************************************************)
(* ConfigMerger.                                                           *)
(***************************************************************************)
DEFAULT_ALLOWED_OVERRIDES ==
    << <<"pr_reviewer", "extra_instructions">>,
       <<"pr_reviewer", "num_max_findings">>,
       <<"pr_reviewer", "require_score_review">>,
       <<"pr_reviewer", "require_tests_review">>,
       <<"pr_reviewer", "require_security_review">>,
       <<"pr_code_suggestions", "extra_instructions">>,
       <<"pr_code_suggestions", "num_code_suggestions">>,
       <<"pr_description", "extra_instructions">>,
       <<"pr_questions", "extra_instructions">> >>

DENIED_OVERRIDES ==
    << <<"config", "model">>,
       <<"config", "fallback_models">>,
       <<"openai", "key">>,
       <<"openai", "api_key">>,
       <<"anthropic", "key">>,
       <<"config", "git_provider">>,
       <<"github", "user_token">>,
       <<"gitlab", "personal_access_token">>,
       <<"bitbucket", "bearer_token">> >>

\* Key names of which one is a proper string prefix of the other:
\* <<longer, shorter>>.
SegPrefixPairs == { <<"model_extra", "model">> }

\* str.startswith on dotted paths: the prefix's segments match, the last one
\* up to a string prefix.
StartsWith(key_path, prefix) ==
    /\ Len(prefix) <= Len(key_path)
    /\ \A i \in 1..(Len(prefix) - 1) : key_path[i] = prefix[i]
    /\ LET n == Len(prefix) IN
       n > 0 => \/ key_path[n] = prefix[n]
                \/ <<key_path[n], prefix[n]>> \in SegPrefixPairs

\* _load_config_file raises: no such file, or a document tomllib rejects.
LoadFails(disk, config_file) ==
    LET real == RealPath(config_file.path) IN
    \/ real \notin ConfigSlots
    \/ disk[real] \in {"none", "malformed"}

\* _load_config_file, where it returns.
LoadConfigFile(disk, config_file) == Parse(disk[RealPath(config_file.path)])

\* validate_file_security (pr_agent.custom_merge_loader) raises SecurityError:
\* a forbidden directive is a key somewhere in the document.
FORBIDDEN_DIRECTIVES == {"dynaconf_include"}

RECURSIVE HasForbiddenDirective(_)
HasForbiddenDirective(d) ==
    \E key \in DOMAIN d :
        \/ key \in FORBIDDEN_DIRECTIVES
        \/ d[key].t = "dict" /\ HasForbiddenDirective(d[key].d)

\* _flatten_dict: the dotted paths of the leaves (the keys of the flat dict).
RECURSIVE FlattenDict(_, _)
FlattenDict(d, parent_key) ==
    UNION { IF key = "_merge_strategy" THEN {}
            ELSE IF d[key].t = "dict"
                 THEN FlattenDict(d[key].d, Append(parent_key, key))
                 ELSE {Append(parent_key, key)}
            : key \in DOMAIN d }

\* ConfigMerger.__init__: `allowed_overrides or DEFAULT_ALLOWED_OVERRIDES`,
\* `denied_overrides or DENIED_OVERRIDES`; <<>> stands for None and for [].
OverridesOrDefault(overrides, default) ==
    IF overrides = <<>> THEN default ELSE overrides

\* any(key_path.startswith(denied) for denied in self.denied_overrides).
IsDenied(key_path, denied_overrides) ==
    \E i \in DOMAIN denied_overrides : StartsWith(key_path, denied_overrides[i])

\* any(key_path.startswith(allowed) or key_path == allowed ...).
IsAllowed(key_path, allowed_overrides) ==
    \E i \in DOMAIN allowed_overrides :
        StartsWith(key_path, allowed_overrides[i]) \/ key_path = allowed_overrides[i]

\* Mutant of the validation: a path that is not on the allowed list raises.
ValidateOverrides_AllowListOnly(config_data, allowed_overrides, denied_overrides) ==
    LET flat_config == FlattenDict(config_data, <<>>) IN
    IF \E key_path \in flat_config :
           IsDenied(key_path, denied_overrides) \/ ~IsAllowed(key_path, allowed_overrides)
    THEN [raised |-> "SecurityError", warned |-> {}]
    ELSE [raised |-> "none", warned |-> {}]

\* _validate_overrides of a merger holding the two lists: it raises when
\* some leaf is denied, and otherwise logs a warning for each leaf that is
\* not allowed.  (The warnings logged before a raise depend on the order of
\* the keys in the file and are left out.)
ValidateOverrides(config_data, allowed_overrides, denied_overrides) ==
    LET flat_config == FlattenDict(config_data, <<>>) IN
    IF \E key_path \in flat_config : IsDenied(key_path, denied_overrides)
    THEN [raised |-> "SecurityError", warned |-> {}]
    ELSE [raised |-> "none",
          warned |-> { key_path \in flat_config : ~IsAllowed(key_path, allowed_overrides) }]

\* _validate_overrides of a merger constructed with the default lists raises
\* SecurityError.
ValidateOverridesRaises(config_data) ==
    ValidateOverrides(config_data, DEFAULT_ALLOWED_OVERRIDES, DENIED_OVERRIDES).raised
      = "SecurityError"

\* _get_merge_strategy.
MERGE_STRATEGIES == {"override", "extend", "inherit"}

\* Mutant of the strategy lookup: an unrecognized directive value extends.
GetMergeStrategy_InvalidExtends(config_section, key, is_root) ==
    IF is_root THEN "extend"
    ELSE IF /\ config_section[key].t = "dict"
            /\ "_merge_strategy" \in DOMAIN config_section[key].d
         THEN IF config_section[key].d["_merge_strategy"].s \in MERGE_STRATEGIES
              THEN config_section[key].d["_merge_strategy"].s
              ELSE "extend"
         ELSE "override"

GetMergeStrategy(config_section, key, is_root) ==
    IF is_root THEN "extend"
    ELSE IF /\ config_section[key].t = "dict"
            /\ "_merge_strategy" \in DOMAIN config_section[key].d
            /\ config_section[key].d["_merge_strategy"].t = "scalar"
            /\ config_section[key].d["_merge_strategy"].s \in MERGE_STRATEGIES
         THEN config_section[key].d["_merge_strategy"].s
         ELSE "override"

\* _merge_dict.
RECURSIVE MergeDict(_, _, _)
MergeDict(base, overlay, is_root) ==
    [key \in DOMAIN base \cup DOMAIN overlay |->
        IF key \notin DOMAIN overlay THEN base[key]
        ELSE LET value == overlay[key]
                 merge_strategy == GetMergeStrategy(overlay, key, is_root)
             IN
             IF key \notin DOMAIN base THEN value
             ELSE IF value.t = "dict" /\ base[key].t = "dict"
                  THEN IF merge_strategy = "override" THEN value
                       ELSE D(MergeDict(base[key].d, value.d, FALSE))
             ELSE IF value.t = "list" /\ base[key].t = "list"
                  THEN IF merge_strategy = "extend"
                       THEN L(base[key].l \o value.l)
                       ELSE value
             ELSE value]

\* Mutant of the loop body: override validation at every depth.
FileException_AllDepths(disk, config_file) ==
    IF LoadFails(disk, config_file) THEN "LoadError"
    ELSE IF HasForbiddenDirective(LoadConfigFile(disk, config_file)) THEN "SecurityError"
    ELSE IF ValidateOverridesRaises(LoadConfigFile(disk, config_file)) THEN "SecurityError"
    ELSE "none"

\* The exception the body of merge_configs' loop raises for one file.
FileException(disk, config_file) ==
    IF LoadFails(disk, config_file) THEN "LoadError"
    ELSE IF HasForbiddenDirective(LoadConfigFile(disk, config_file)) THEN "SecurityError"
    ELSE IF config_file.depth > 0 /\ ValidateOverridesRaises(LoadConfigFile(disk, config_file))
         THEN "SecurityError"
    ELSE "none"

Returned(value) == [raised |-> "none", value |-> value]

Raised(exc) == [raised |-> exc, value |-> EmptyDict]

\* Mutant of the handler: the exception reaches the caller.
MergeExceptHandler_Propagates(exc, continued) == Raised(exc)

\* The handler of merge_configs' loop (except Exception: log, continue):
\* `continued` is the outcome of going on with the next file.
MergeExceptHandler(exc, continued) == continued

\* merge_configs' loop from file i on, `merged` being the map so far.
RECURSIVE MergeLoop(_, _, _, _)
MergeLoop(disk, config_files, i, merged) ==
    IF i > Len(config_files) THEN Returned(merged)
    ELSE LET config_file == config_files[i]
             exc == FileException(disk, config_file)
         IN
         IF exc # "none"
         THEN MergeExceptHandler(exc, MergeLoop(disk, config_files, i + 1, merged))
         ELSE MergeLoop(disk, config_files, i + 1,
                        MergeDict(merged, LoadConfigFile(disk, config_file),
                                  config_file.depth = 0))

\* merge_configs(config_files, base_config).
MergeConfigs(disk, config_files, base_config) ==
    MergeLoop(disk, config_files, 1, base_config)

Issue(config_file, type) == [file |-> config_file.relative_path, type |-> type]

\* The issues validate_config_consistency records for one file.
FileIssues(disk, config_file) ==
    IF LoadFails(disk, config_file) THEN <<Issue(config_file, "load_error")>>
    ELSE IF HasForbiddenDirective(LoadConfigFile(disk, config_file))
         THEN <<Issue(config_file, "load_error")>>
    ELSE IF config_file.depth > 0 /\ ValidateOverridesRaises(LoadConfigFile(disk, config_file))
         THEN <<Issue(config_file, "security_violation")>>
    ELSE <<>>

\* validate_config_consistency(config_files).
RECURSIVE ValidateConfigConsistency(_, _)
ValidateConfigConsistency(disk, config_files) ==
    IF Len(config_files) = 0 THEN <<>>
    ELSE FileIssues(disk, Head(config_files))
           \o ValidateConfigConsistency(disk, Tail(config_files))

(***************************************************************************)
(* State machine, part 1: a ConfigMerger over a disk holding up to three   *)
(* config files, at depths 0, 1 and 2.                                     *)
(***************************************************************************)
RootConfigPath == <<"r", ".pr_agent.toml">>

SrcConfigPath == <<"r", "src", ".pr_agent.toml">>

BackendConfigPath == <<"r", "src", "backend", ".pr_agent.toml">>

TestsConfigPath == <<"r", "tests", ".pr_agent.toml">>

V1ConfigPath == <<"r", "src", "backend", "api", "v1", ".pr_agent.toml">>

\* The ConfigFile a caller builds for a config stored at `path` in the repository.
ConfigFileAt(path) ==
    LET relative_path == RelativeTo(path, repo_root) IN
    ConfigFile(path, Len(Parent(relative_path)), relative_path)

\* A disk with the given documents at the root, src/, src/backend/ and tests/
\* configs and no other config file.
Disk(root_doc, src_doc, backend_doc, tests_doc) ==
    [p \in ConfigSlots |->
        IF p = RootConfigPath THEN root_doc
        ELSE IF p = SrcConfigPath THEN src_doc
        ELSE IF p = BackendConfigPath THEN backend_doc
        ELSE IF p = TestsConfigPath THEN tests_doc
        ELSE "none"]

\* Lists of ConfigFile handed to the merger: shallow to deep.
MergerLists ==
    LET c0 == ConfigFileAt(RootConfigPath)
        c1 == ConfigFileAt(SrcConfigPath)
        c2 == ConfigFileAt(BackendConfigPath)
    IN { <<>>, <<c0>>, <<c1>>, <<c2>>, <<c0, c1>>, <<c0, c2>>, <<c1, c2>>, <<c0, c1, c2>> }

\* base_config arguments: none, and the one of test_merge_with_base_config.
BaseConfigs ==
    { EmptyDict,
      ("config" :> D("model" :> S("gpt-3.5"))),
      ("pr_reviewer" :> D(("tags" :> L(<<"a">>)) @@ ("keep" :> S("1"))
                          @@ ("sub" :> D("x" :> S("1"))))) }

NoOp == [name |-> "init"]

InitMerger ==
    /\ \E root_doc, src_doc, backend_doc \in DocNames \cup {"none"} :
           fs = Disk(root_doc, src_doc, backend_doc, "none")
    /\ enable_path_config = TRUE
    /\ d_cache = <<>>
    /\ resolution_cache = <<>>
    /\ next_id = 1
    /\ global_store = <<>>
    /\ writes = 0
    /\ op = NoOp
    /\ ret = <<>>
    /\ probed = {}
    /\ discovered = <<>>
    /\ last_returned = <<>>

\* The merger keeps no state between calls: one call per run covers them all.
CallMergeConfigs ==
    \E config_files \in MergerLists, base_config \in BaseConfigs :
        /\ op = NoOp
        /\ op' = [name |-> "merge_configs", config_files |-> config_files,
                  base_config |-> base_config]
        /\ ret' = MergeConfigs(fs, config_files, base_config)
        /\ UNCHANGED <<fs, enable_path_config, d_cache, resolution_cache, next_id,
                       global_store, writes, probed, discovered, last_returned>>

CallValidateConfigConsistency ==
    \E config_files \in MergerLists :
        /\ op = NoOp
        /\ op' = [name |-> "validate_config_consistency", config_files |-> config_files]
        /\ ret' = ValidateConfigConsistency(fs, config_files)
        /\ UNCHANGED <<fs, enable_path_config, d_cache, resolution_cache, next_id,
                       global_store, writes, probed, discovered, last_returned>>

NextMerger == CallMergeConfigs \/ CallValidateConfigConsistency

SpecMerger == InitMerger /\ [][NextMerger]_vars

(***************************************************************************)
(* Claims about the merger (checked under SpecMerger).                     *)
(***************************************************************************)
\* The file parses and holds a forbidden dynamic-include directive.
HoldsForbiddenDirective(disk, config_file) ==
    /\ ~LoadFails(disk, config_file)
    /\ HasForbiddenDirective(LoadConfigFile(disk, config_file))

\* The file parses and sets a leaf whose dotted path starts with a denied prefix.
SetsDeniedLeaf(disk, config_file) ==
    /\ ~LoadFails(disk, config_file)
    /\ ValidateOverridesRaises(LoadConfigFile(disk, config_file))

\* C1: merge_configs raises a security error to its caller whenever some
\* config of the list is at depth > 0 and sets a denied leaf, or holds a
\* forbidden dynamic-include directive at any depth.
C1_MergeRaisesSecurityError ==
    (/\ op.name = "merge_configs"
     /\ \E i \in DOMAIN op.config_files :
            \/ op.config_files[i].depth > 0 /\ SetsDeniedLeaf(fs, op.config_files[i])
            \/ HoldsForbiddenDirective(fs, op.config_files[i]))
    => ret.raised = "SecurityError"

\* C2: merging a root config and a deeper one that define the same section,
\* the deeper one without a merge directive: the merged section has the
\* deeper config's value for every key the deeper config sets, and the root's
\* value for every other key of the root's section.
C2_DeeperWinsRootKeysSurvive ==
    (/\ op.name = "merge_configs"
     /\ op.base_config = EmptyDict
     /\ Len(op.config_files) = 2
     /\ op.config_files[1].depth = 0
     /\ op.config_files[2].depth > 0
     /\ FileException(fs, op.config_files[1]) = "none"
     /\ FileException(fs, op.config_files[2]) = "none")
    => LET root == LoadConfigFile(fs, op.config_files[1])
           child == LoadConfigFile(fs, op.config_files[2])
       IN
       /\ ret.raised = "none"
       /\ \A section \in DOMAIN root \cap DOMAIN child :
            (/\ root[section].t = "dict"
             /\ child[section].t = "dict"
             /\ "_merge_strategy" \notin DOMAIN child[section].d)
            => /\ section \in DOMAIN ret.value
               /\ ret.value[section].t = "dict"
               /\ \A key \in DOMAIN child[section].d :
                    /\ key \in DOMAIN ret.value[section].d
                    /\ ret.value[section].d[key] = child[section].d[key]
               /\ \A key \in DOMAIN root[section].d \ DOMAIN child[section].d :
                    /\ key \in DOMAIN ret.value[section].d
                    /\ ret.value[section].d[key] = root[section].d[key]

\* The issues of a list of issues that name the file.
IssuesFor(issues, config_file) ==
    { i \in DOMAIN issues : issues[i].file = config_file.relative_path }

\* C5: validate_config_consistency returns (never raises), with exactly one
\* issue, of type security_violation, for each depth > 0 config that sets a
\* denied leaf, and no issue for a root config that sets one nor for a valid
\* config, wherever the file stands in the list.
C5_ConsistencyIssues ==
    op.name = "validate_config_consistency"
    => \A i \in DOMAIN op.config_files :
         LET config_file == op.config_files[i] IN
         /\ (config_file.depth > 0 /\ SetsDeniedLeaf(fs, config_file))
            => /\ Cardinality(IssuesFor(ret, config_file)) = 1
               /\ \A j \in IssuesFor(ret, config_file) : ret[j].type = "security_violation"
         /\ (/\ ~LoadFails(fs, config_file)
             /\ ~HasForbiddenDirective(LoadConfigFile(fs, config_file))
             /\ (config_file.depth = 0 \/ ~SetsDeniedLeaf(fs, config_file)))
            => IssuesFor(ret, config_file) = {}

\* The list without its i-th element.
RemoveAt(s, i) == SubSeq(s, 1, i - 1) \o SubSeq(s, i + 1, Len(s))

\* C6: a config file that fails to load or parse is skipped without raising:
\* merge_configs returns the map it returns for the list without that file.
C6_UnloadableFileSkipped ==
    op.name = "merge_configs"
    => \A i \in DOMAIN op.config_files :
         LoadFails(fs, op.config_files[i])
         => /\ ret.raised = "none"
            /\ ret = MergeConfigs(fs, RemoveAt(op.config_files, i), op.base_config)

\* C6 witness: a merge of a malformed file followed by a file that was folded in.
C6_Witness ==
    /\ op.name = "merge_configs"
    /\ Len(op.config_files) = 2
    /\ fs[op.config_files[1].path] = "malformed"
    /\ FileException(fs, op.config_files[2]) = "none"
    /\ ret.raised = "none"
    /\ ret.value = LoadConfigFile(fs, op.config_files[2])
    /\ ret.value # EmptyDict

(***************************************************************************)
(* State machine, part 2: a ConfigDiscovery over a disk holding a few      *)
(* config files, inside and outside the repository.                        *)
(***************************************************************************)
\* Where the discovery runs put config files.
DiscoverySlots ==
    { Append(repo_root, CONFIG_FILENAMES[i]) : i \in 1..Len(CONFIG_FILENAMES) }
      \cup { SrcConfigPath, BackendConfigPath, TestsConfigPath,
             V1ConfigPath,
             <<"x", ".pr_agent.toml">>, <<".pr_agent.toml">> }

\* changed_files arguments.
ChangedFileLists ==
    { <<PathTable[i].str>> : i \in 1..Len(PathTable) }
      \cup { <<>>,
             <<"src/main.py", "tests/test_main.py">>,
             <<"tests/test_main.py", "src/main.py">>,
             <<"src/main.py", "src/main.py">>,
             <<"src/backend/main.py", "src/../README.md">> }

InitDiscovery ==
    /\ \E present \in SUBSET DiscoverySlots :
           /\ Cardinality(present) <= MaxConfigFiles
           /\ fs = [p \in ConfigSlots |-> IF p \in present THEN "rootAB" ELSE "none"]
    /\ enable_path_config = TRUE
    /\ d_cache = <<>>
    /\ resolution_cache = <<>>
    /\ next_id = 1
    /\ global_store = <<>>
    /\ writes = 0
    /\ op = NoOp
    /\ ret = <<>>
    /\ probed = {}
    /\ discovered = <<>>
    /\ last_returned = <<>>

CallDiscoverConfigs ==
    \E changed_files \in ChangedFileLists :
        /\ \/ GenerateCacheKey(changed_files) \in DOMAIN d_cache
           \/ Cardinality(DOMAIN d_cache) < MaxCache
        /\ \E o \in DiscoverConfigs(fs, d_cache, changed_files) :
            /\ op' = [name |-> "discover_configs", changed_files |-> changed_files,
                      cached |-> o.cached]
            /\ ret' = o.configs
            /\ d_cache' = o.cache
            /\ probed' = o.probed
            /\ UNCHANGED <<fs, enable_path_config, resolution_cache, next_id,
                           global_store, writes, discovered, last_returned>>

\* ConfigDiscovery.clear_cache.
CallDiscoveryClearCache ==
    /\ op' = [name |-> "discovery.clear_cache"]
    /\ d_cache' = <<>>
    /\ ret' = <<>>
    /\ probed' = {}
    /\ UNCHANGED <<fs, enable_path_config, resolution_cache, next_id,
                   global_store, writes, discovered, last_returned>>

NextDiscovery == CallDiscoverConfigs \/ CallDiscoveryClearCache

SpecDiscovery == InitDiscovery /\ [][NextDiscovery]_vars

(***************************************************************************)
(* Claims about discovery (checked under SpecDiscovery).                   *)
(***************************************************************************)
\* The place the operating system resolves the path to lies in the repository.
ResolvesInsideRepo(p) == IsRelativeTo(RealPath(p), repo_root)

\* C4: whatever the changed-file paths, ".." segments and absolute paths
\* included, discover_configs probes no directory and returns no ConfigFile
\* whose resolved location lies outside the repository root.
C4_NeverOutsideRepo ==
    op.name = "discover_configs"
    => /\ \A d \in probed : RealPath(d) \in RealDirs => ResolvesInsideRepo(d)
       /\ \A i \in DOMAIN ret : ResolvesInsideRepo(ret[i].path)

\* C8: the list discover_configs returns is sorted non-decreasing by depth
\* and no two of its entries denote the same config file.
C8_SortedNoDuplicates ==
    op.name = "discover_configs"
    => /\ IsSortedByDepth(ret)
       /\ \A i, j \in DOMAIN ret :
            i # j => RealPath(ret[i].path) # RealPath(ret[j].path)

(***************************************************************************)
(* ConfigResolver.                                                         *)
(***************************************************************************)
\* A ResolvedConfig object; `id` is its identity.
ResolvedConfig(config, source_configs, file_path, id) ==
    [config |-> config, source_configs |-> source_configs,
     file_path |-> file_path, id |-> id]

\* Mutant of the filter: every discovered config is kept.
FilterApplicableConfigs_KeepAll(file_path, all_configs) == all_configs

\* _filter_applicable_configs: file_abs_path.relative_to(config.path.parent)
\* does not raise.
FilterApplicableConfigs(file_path, all_configs) ==
    LET file_abs_path == JoinRoot(file_path)
        Applies(config) == IsRelativeTo(file_abs_path, Parent(config.path))
    IN SelectSeq(all_configs, Applies)

\* Mutant of the caching step: the result is not stored.
ResolutionCachePut_Dropped(cache, file_path, resolved) == cache

\* self._resolution_cache[file_path] = resolved.
ResolutionCachePut(cache, file_path, resolved) == Put(cache, file_path, resolved)

\* What one call leaves behind: its result (`raised` is "none" when it
\* returned `value`), both caches, the next object identity, and what
\* discovery it made ("none", "cached" or "fresh").
Outcome(raised, value, rcache, dcache, id, discovery, configs, hit) ==
    [raised |-> raised, value |-> value, rcache |-> rcache, dcache |-> dcache,
     next_id |-> id, discovery |-> discovery, configs |-> configs, hit |-> hit]

\* The filter-merge-construct-cache steps shared by get_config_for_file and
\* get_config_for_files, for one file and the discovered list `all_configs`.
ResolveWith(disk, rcache, dcache, id, file_path, all_configs, discovery) ==
    LET applicable_configs == FilterApplicableConfigs(file_path, all_configs)
        merged == MergeConfigs(disk, applicable_configs, EmptyDict)
        resolved == ResolvedConfig(merged.value, applicable_configs, file_path, id)
    IN IF merged.raised # "none"
       THEN Outcome(merged.raised, <<>>, rcache, dcache, id, discovery, all_configs, FALSE)
       ELSE Outcome("none", resolved, ResolutionCachePut(rcache, file_path, resolved),
                    dcache, id + 1, discovery, all_configs, FALSE)

\* get_config_for_file(file_path, changed_files); changed_files = <<>> stands
\* for None and for the empty list, both of which the code replaces by
\* [file_path].
GetConfigForFile(disk, enabled, rcache, dcache, id, file_path, changed_files) ==
    IF file_path \in DOMAIN rcache
    THEN { Outcome("none", rcache[file_path], rcache, dcache, id, "none", <<>>, TRUE) }
    ELSE IF ~enabled
    THEN { Outcome("none", ResolvedConfig(EmptyDict, <<>>, file_path, id),
                   rcache, dcache, id + 1, "none", <<>>, FALSE) }
    ELSE LET files_to_check == IF changed_files = <<>> THEN <<file_path>> ELSE changed_files
         IN { ResolveWith(disk, rcache, o.cache, id, file_path, o.configs,
                          IF o.cached THEN "cached" ELSE "fresh")
              : o \in DiscoverConfigs(disk, dcache, files_to_check) }

\* The loop of get_config_for_files from file i on; `results` maps the files
\* done so far to their ResolvedConfig.
RECURSIVE ResolveEach(_, _, _, _, _, _, _, _, _)
ResolveEach(disk, rcache, dcache, id, file_paths, i, all_configs, discovery, results) ==
    IF i > Len(file_paths)
    THEN Outcome("none", results, rcache, dcache, id, discovery, all_configs, FALSE)
    ELSE LET file_path == file_paths[i] IN
         IF file_path \in DOMAIN rcache
         THEN ResolveEach(disk, rcache, dcache, id, file_paths, i + 1, all_configs,
                          discovery, Put(results, file_path, rcache[file_path]))
         ELSE LET o == ResolveWith(disk, rcache, dcache, id, file_path, all_configs, discovery)
              IN IF o.raised # "none" THEN o
                 ELSE ResolveEach(disk, o.rcache, dcache, o.next_id, file_paths, i + 1,
                                  all_configs, discovery, Put(results, file_path, o.value))

\* Mutant of the disabled path of get_config_for_files: the configs it
\* returns are not empty.
EmptyConfigs_NotEmpty(file_paths, i, id, results) ==
    [results |-> [f \in Range(file_paths) |->
                    ResolvedConfig(("pr_reviewer" :> D("extra_instructions" :> S("root"))),
                                   <<>>, f, id)],
     next_id |-> id + Len(file_paths)]

\* The dict comprehension get_config_for_files returns when path config is
\* disabled: a new empty ResolvedConfig per path.
RECURSIVE EmptyConfigs(_, _, _, _)
EmptyConfigs(file_paths, i, id, results) ==
    IF i > Len(file_paths) THEN [results |-> results, next_id |-> id]
    ELSE EmptyConfigs(file_paths, i + 1, id + 1,
                      Put(results, file_paths[i],
                          ResolvedConfig(EmptyDict, <<>>, file_paths[i], id)))

\* get_config_for_files(file_paths).
GetConfigForFiles(disk, enabled, rcache, dcache, id, file_paths) ==
    IF ~enabled \/ file_paths = <<>>
    THEN LET e == EmptyConfigs(file_paths, 1, id, <<>>) IN
         { Outcome("none", e.results, rcache, dcache, e.next_id, "none", <<>>, FALSE) }
    ELSE { ResolveEach(disk, rcache, o.cache, id, file_paths, 1, o.configs,
                       IF o.cached THEN "cached" ELSE "fresh", <<>>)
           : o \in DiscoverConfigs(disk, dcache, file_paths) }

\* Setting paths as the caller writes them: setting_path.lower() and its split.
SettingTable ==
    << [str |-> "pr_reviewer.extra_instructions",
        lower |-> "pr_reviewer.extra_instructions",
        parts |-> <<"pr_reviewer", "extra_instructions">>],
       [str |-> "pr_reviewer.num_max_findings",
        lower |-> "pr_reviewer.num_max_findings",
        parts |-> <<"pr_reviewer", "num_max_findings">>],
       [str |-> "PR_REVIEWER.NUM_MAX_FINDINGS",
        lower |-> "pr_reviewer.num_max_findings",
        parts |-> <<"pr_reviewer", "num_max_findings">>] >>

SettingEntry(setting_path) ==
    SettingTable[CHOOSE i \in 1..Len(SettingTable) : SettingTable[i].str = setting_path]

NotFound == [found |-> FALSE, value |-> S("")]

\* The for loop of get_effective_setting: current = current[part], KeyError
\* and TypeError meaning the setting is absent.
RECURSIVE LookupParts(_, _)
LookupParts(current, parts) ==
    IF parts = <<>> THEN [found |-> TRUE, value |-> current]
    ELSE IF current.t = "dict" /\ Head(parts) \in DOMAIN current.d
         THEN LookupParts(current.d[Head(parts)], Tail(parts))
         ELSE NotFound

\* get_settings().get(key): "None" when the store has no value.
GlobalGet(store, key) == IF key \in DOMAIN store THEN store[key] ELSE "None"

\* get_effective_setting after get_config_for_file returned `resolved`.
EffectiveSettingOf(resolved, store, setting_path, default) ==
    LET e == SettingEntry(setting_path)
        hit == LookupParts(D(resolved.config), e.parts)
    IN IF hit.found THEN hit.value
       ELSE IF GlobalGet(store, e.lower) # "None" THEN S(GlobalGet(store, e.lower))
       ELSE S(default)

\* self._resolution_cache.clear().
ClearedResolutionCache(cache) == <<>>

\* Mutant of clear_cache: the discovery cache is left alone.
ClearedDiscoveryCache_Kept(cache) == cache

\* self.discovery.clear_cache().
ClearedDiscoveryCache(cache) == <<>>

(***************************************************************************)
(* State machine, part 3: a ConfigResolver over a repository whose config *)
(* files can be rewritten while it lives.                                  *)
(***************************************************************************)
\* file_path arguments.
ResolverFiles == { "src/main.py", "tests/test_main.py" }

\* The changed files of a pull request touching src/ and tests/.
Batch == <<"src/main.py", "tests/test_main.py">>

\* The documents a config file of the repository holds, by place.
SlotDocs(p) ==
    IF p = RootConfigPath THEN {"none", "rootAB"}
    ELSE IF p = SrcConfigPath THEN {"none", "childB", "childN"}
    ELSE IF p = TestsConfigPath THEN {"none", "childB"}
    ELSE {"none"}

ResolverSlots == { RootConfigPath, SrcConfigPath, BackendConfigPath, TestsConfigPath }

\* The value the global settings store can hold for a key.
GlobalStores == { <<>>, ("pr_reviewer.num_max_findings" :> "5") }

\* The setting paths the resolver runs ask for: those written in lower case.
SettingPaths ==
    { SettingTable[i].str :
        i \in { j \in 1..Len(SettingTable) : SettingTable[j].str = SettingTable[j].lower } }

Defaults == { "10" }

InitResolver ==
    /\ \E root_doc \in SlotDocs(RootConfigPath), src_doc \in SlotDocs(SrcConfigPath),
          backend_doc \in SlotDocs(BackendConfigPath), tests_doc \in SlotDocs(TestsConfigPath) :
           /\ Cardinality({ d \in {<<1, root_doc>>, <<2, src_doc>>, <<3, backend_doc>>,
                                   <<4, tests_doc>>} : d[2] # "none" }) <= MaxConfigFiles + 1
           /\ fs = Disk(root_doc, src_doc, backend_doc, tests_doc)
    /\ enable_path_config \in BOOLEAN
    /\ global_store \in GlobalStores
    /\ d_cache = <<>>
    /\ resolution_cache = <<>>
    /\ next_id = 1
    /\ writes = 0
    /\ op = NoOp
    /\ ret = <<>>
    /\ probed = {}
    /\ discovered = <<>>
    /\ last_returned = <<>>

\* resolve: get_config_for_file(file_path, changed_files).
CallResolve ==
    \E file_path \in ResolverFiles, changed_files \in {<<>>, Batch} :
    \E o \in GetConfigForFile(fs, enable_path_config, resolution_cache, d_cache,
                              next_id, file_path, changed_files) :
        /\ o.next_id <= MaxObjs + 1
        /\ Cardinality(DOMAIN o.dcache) <= MaxCache
        /\ op' = [name |-> "resolve", file_path |-> file_path,
                  changed_files |-> changed_files, hit |-> o.hit,
                  discovery |-> o.discovery, raised |-> o.raised]
        /\ ret' = o.value
        /\ resolution_cache' = o.rcache
        /\ d_cache' = o.dcache
        /\ next_id' = o.next_id
        /\ discovered' = o.configs
        /\ last_returned' = IF o.raised = "none" THEN Put(last_returned, file_path, o.value)
                            ELSE last_returned
        /\ UNCHANGED <<fs, enable_path_config, global_store, writes, probed>>

\* resolve_many: get_config_for_files(file_paths).
CallResolveMany ==
    \E file_paths \in {Batch} :
    \E o \in GetConfigForFiles(fs, enable_path_config, resolution_cache, d_cache,
                               next_id, file_paths) :
        /\ o.next_id <= MaxObjs + 1
        /\ Cardinality(DOMAIN o.dcache) <= MaxCache
        /\ op' = [name |-> "resolve_many", file_paths |-> file_paths,
                  fresh |-> { file_paths[i] : i \in 1..Len(file_paths) }
                              \ DOMAIN resolution_cache,
                  discovery |-> o.discovery, raised |-> o.raised]
        /\ ret' = o.value
        /\ resolution_cache' = o.rcache
        /\ d_cache' = o.dcache
        /\ next_id' = o.next_id
        /\ discovered' = o.configs
        /\ UNCHANGED <<fs, enable_path_config, global_store, writes, probed, last_returned>>

\* effective_setting: get_effective_setting(file_path, setting_path, default).
CallEffectiveSetting ==
    \E file_path \in ResolverFiles, setting_path \in SettingPaths, default \in Defaults :
    \E o \in GetConfigForFile(fs, enable_path_config, resolution_cache, d_cache,
                              next_id, file_path, <<>>) :
        /\ o.next_id <= MaxObjs + 1
        /\ Cardinality(DOMAIN o.dcache) <= MaxCache
        /\ op' = [name |-> "effective_setting", file_path |-> file_path,
                  setting_path |-> setting_path, default |-> default,
                  resolved |-> o.value, raised |-> o.raised]
        /\ ret' = IF o.raised = "none"
                  THEN EffectiveSettingOf(o.value, global_store, setting_path, default)
                  ELSE S("")
        /\ resolution_cache' = o.rcache
        /\ d_cache' = o.dcache
        /\ next_id' = o.next_id
        /\ discovered' = o.configs
        /\ last_returned' = IF o.raised = "none" THEN Put(last_returned, file_path, o.value)
                            ELSE last_returned
        /\ UNCHANGED <<fs, enable_path_config, global_store, writes, probed>>

\* ConfigResolver.clear_cache.
CallClearCache ==
    /\ op' = [name |-> "clear_cache"]
    /\ ret' = <<>>
    /\ resolution_cache' = ClearedResolutionCache(resolution_cache)
    /\ d_cache' = ClearedDiscoveryCache(d_cache)
    /\ discovered' = <<>>
    /\ last_returned' = <<>>
    /\ UNCHANGED <<fs, enable_path_config, next_id, global_store, writes, probed>>

\* Somebody rewrites, creates or deletes a config file of the repository.
WriteConfig ==
    \E p \in ResolverSlots : \E doc \in SlotDocs(p) :
        /\ writes < MaxWrites
        /\ doc # fs[p]
        /\ fs' = [fs EXCEPT ![p] = doc]
        /\ writes' = writes + 1
        /\ op' = [name |-> "write_config", path |-> p]
        /\ ret' = <<>>
        /\ discovered' = <<>>
        /\ last_returned' = <<>>
        /\ UNCHANGED <<enable_path_config, d_cache, resolution_cache, next_id,
                       global_store, probed>>

NextResolver ==
    \/ CallResolve
    \/ CallResolveMany
    \/ CallEffectiveSetting
    \/ CallClearCache
    \/ WriteConfig

SpecResolver == InitResolver /\ [][NextResolver]_vars

(***************************************************************************)
(* Claims about the resolver (checked under SpecResolver).                 *)
(***************************************************************************)
\* The directory `dir` is the directory `of` or one of its ancestors, part
\* by part.
IsAncestorOrSelf(dir, of) ==
    /\ Len(dir) <= Len(of)
    /\ \A i \in 1..Len(dir) : dir[i] = of[i]

\* The directory of the file the caller names F.
DirOf(F) == Parent(JoinRoot(F))

\* The config file c lies in F's directory or in one above it.
AppliesTo(c, F) == IsAncestorOrSelf(Parent(c.path), DirOf(F))

\* Every source of the ResolvedConfig rc applies to F.
SourcesApply(rc, F) ==
    \A i \in DOMAIN rc.source_configs : AppliesTo(rc.source_configs[i], F)

\* The sources of rc are the members of `all` that apply to F, all of them.
SourcesExact(rc, F, all) ==
    LET Keep(c) == AppliesTo(c, F) IN
    rc.source_configs = SelectSeq(all, Keep)

\* C3: after any sequence of resolve and resolve_many calls, the
\* source_configs of the ResolvedConfig held or returned for a file F are
\* exactly the discovered ConfigFiles whose directory is F's directory or an
\* ancestor of it by path segments; a config of a sibling directory is never
\* among them, even when the same batch discovered it for another file.
C3_SourcesAreTheAncestorConfigs ==
    /\ \A F \in DOMAIN resolution_cache : SourcesApply(resolution_cache[F], F)
    /\ op.name = "resolve"
       => /\ SourcesApply(ret, op.file_path)
          /\ ~op.hit => SourcesExact(ret, op.file_path, discovered)
    /\ op.name = "resolve_many"
       => \A F \in DOMAIN ret :
            /\ SourcesApply(ret[F], F)
            /\ F \in op.fresh => SourcesExact(ret[F], F, discovered)

\* A batch discovered the tests/ config and resolved src/main.py afresh from
\* a non-empty set of sources.
C3_Witness ==
    /\ op.name = "resolve_many"
    /\ \E i \in DOMAIN discovered : discovered[i].path = TestsConfigPath
    /\ "src/main.py" \in op.fresh
    /\ ret["src/main.py"].source_configs # <<>>

\* The config file loads, passes validation and holds a value at `parts`.
DefinesSetting(disk, c, parts) ==
    /\ FileException(disk, c) = "none"
    /\ LookupParts(D(LoadConfigFile(disk, c)), parts).found

\* C7: effective_setting(F, setting, default) returns the value of the
\* deepest applicable config that defines the setting whenever one defines
\* it; otherwise the global store's value, and default when that has none.
C7_NearestScopeThenGlobalThenDefault ==
    op.name = "effective_setting" /\ writes = 0
    => LET src == op.resolved.source_configs
           e == SettingEntry(op.setting_path)
           defining == { i \in DOMAIN src : DefinesSetting(fs, src[i], e.parts) }
           nearest == CHOOSE i \in defining :
                          \A j \in defining : src[j].depth <= src[i].depth
       IN IF defining # {}
          THEN ret = LookupParts(D(LoadConfigFile(fs, src[nearest])), e.parts).value
          ELSE IF e.lower \in DOMAIN global_store
               THEN ret = S(global_store[e.lower])
               ELSE ret = S(op.default)

\* C9 as stated: on any resolver, a resolve(F) returns the very object the
\* previous resolve(F) returned, no clear_cache and no change to the disk
\* having come between.
C9_SameObjectOnAnyResolver ==
    [][ (op'.name = "resolve" /\ op'.file_path \in DOMAIN last_returned)
        => ret' = last_returned[op'.file_path] ]_vars

\* C9: on a resolver with path-scoped config enabled, a resolve(F) returns
\* the very object (same identity) the previous resolve(F) returned, no
\* clear_cache and no change to the disk having come between.
C9_SameObjectWhenEnabled ==
    [][ (enable_path_config /\ op'.name = "resolve"
           /\ op'.file_path \in DOMAIN last_returned)
        => ret' = last_returned[op'.file_path] ]_vars

\* A resolve answered from the resolution cache with a config that has sources.
C9_Witness ==
    /\ enable_path_config
    /\ op.name = "resolve"
    /\ op.hit
    /\ op.file_path \in DOMAIN last_returned
    /\ ret.source_configs # <<>>
    /\ Cardinality(DOMAIN resolution_cache) = 1

\* C10: a ResolvedConfig cached for F stays in the cache and is what
\* resolve(F) returns, whatever is written to the disk, until clear_cache;
\* clear_cache empties the resolution cache and the discovery cache; and a
\* resolve(F) that finds both empty discovers and merges afresh, its result
\* being that of the disk at that time.
C10_CachedUntilClearedThenFresh ==
    [][ /\ op'.name # "clear_cache"
           => \A F \in DOMAIN resolution_cache :
                /\ F \in DOMAIN resolution_cache'
                /\ resolution_cache'[F] = resolution_cache[F]
        /\ (op'.name = "resolve" /\ op'.file_path \in DOMAIN resolution_cache)
           => ret' = resolution_cache[op'.file_path]
        /\ op'.name = "clear_cache"
           => resolution_cache' = <<>> /\ d_cache' = <<>>
        /\ (op'.name = "resolve" /\ enable_path_config
              /\ resolution_cache = <<>> /\ d_cache = <<>>)
           => /\ op'.discovery = "fresh"
              /\ discovered' \in DiscoverConfigsUncached(fs',
                     IF op'.changed_files = <<>> THEN <<op'.file_path>>
                     ELSE op'.changed_files)
              /\ SourcesExact(ret', op'.file_path, discovered')
              /\ ret'.config = MergeConfigs(fs', ret'.source_configs, EmptyDict).value
      ]_vars

\* After a write to the disk and a clear_cache, a resolve discovered afresh
\* and built a second object, the only one the cache holds.
C10_Witness ==
    /\ enable_path_config
    /\ op.name = "resolve"
    /\ op.discovery = "fresh"
    /\ writes = 1
    /\ ret.id = 2
    /\ ret.source_configs # <<>>
    /\ DOMAIN resolution_cache = {op.file_path}

(***************************************************************************)
(* More claims about discovery (checked under SpecDiscovery).              *)
(***************************************************************************)
\* Some config file name exists in the directory d.
HoldsConfig(disk, d) ==
    \E i \in 1..Len(CONFIG_FILENAMES) : IsFile(disk, Append(d, CONFIG_FILENAMES[i]))

\* The directory d is the directory of the changed file F or at most `levels`
\* directories above it.
WithinLevels(d, F, levels) ==
    /\ IsAncestorOrSelf(d, DirOf(F))
    /\ Len(DirOf(F)) - Len(d) <= levels

\* C11: discover_configs returns (it has no way to raise) only the root
\* config and configs lying at most max_depth directory levels above the
\* directory of one of the changed files; a config further up, the root's
\* apart, is not returned.  For a changed file that exists on disk every
\* config within those levels and inside the repository is returned.
C11_OnlyWithinMaxDepthLevels ==
    op.name = "discover_configs"
    => /\ \A i \in DOMAIN ret :
            \/ Parent(ret[i].path) = repo_root
            \/ \E k \in DOMAIN op.changed_files :
                   WithinLevels(Parent(ret[i].path), op.changed_files[k], max_depth)
       /\ \A k \in DOMAIN op.changed_files :
            LET F == op.changed_files[k] IN
            IsFile(fs, JoinRoot(F))
            => \A n \in 0..max_depth :
                 LET d == SubSeq(DirOf(F), 1, Len(DirOf(F)) - n) IN
                 (n <= Len(DirOf(F)) - Len(repo_root) /\ IsRelativeTo(d, repo_root)
                    /\ HoldsConfig(fs, d))
                 => \E i \in DOMAIN ret : Parent(ret[i].path) = d

\* A file four directories down was discovered with max_depth 2: the src/
\* config exists, lies three levels above it and is not returned, the root
\* config is.
C11_Witness ==
    /\ op.name = "discover_configs"
    /\ op.changed_files = <<"src/backend/api/v1/h.py">>
    /\ fs[SrcConfigPath] # "none"
    /\ fs[RootConfigPath] # "none"
    /\ \E i \in DOMAIN ret : ret[i].path = RootConfigPath
    /\ \A i \in DOMAIN ret : ret[i].path # SrcConfigPath

\* C12: every ConfigFile discover_configs returns has a depth (directory
\* levels below the repository root) of at most max_depth.
C12_DepthAtMostMaxDepth ==
    op.name = "discover_configs"
    => \A i \in DOMAIN ret : ret[i].depth <= max_depth

(***************************************************************************)
(* State machine, part 4: one call on a newly constructed ConfigResolver,  *)
(* over repositories with files nested deeper than max_depth and config   *)
(* files written in either letter case.                                    *)
(***************************************************************************)
FreshFiles ==
    { "src/main.py", "src/backend/api/v1/h.py", "src/backend/api/v1/new.py",
      "tests/test_main.py" }

FreshBatches ==
    { Batch,
      <<"src/main.py", "src/backend/api/v1/h.py">>,
      <<"src/backend/main.py", "src/backend/api/v1/h.py">> }

\* Every setting path of the table, upper case included.
FreshSettingPaths == { SettingTable[i].str : i \in 1..Len(SettingTable) }

InitFresh ==
    /\ \E root_doc \in {"none", "rootAB", "upperN"}, src_doc \in {"none", "childB"},
          backend_doc \in {"none", "childN"}, v1_doc \in {"none", "childB"},
          tests_doc \in {"none", "childB"} :
           fs = [Disk(root_doc, src_doc, backend_doc, tests_doc)
                   EXCEPT ![V1ConfigPath] = v1_doc]
    /\ enable_path_config \in BOOLEAN
    /\ global_store \in GlobalStores
    /\ d_cache = <<>>
    /\ resolution_cache = <<>>
    /\ next_id = 1
    /\ writes = 0
    /\ op = NoOp
    /\ ret = <<>>
    /\ probed = {}
    /\ discovered = <<>>
    /\ last_returned = <<>>

\* changed_files arguments of a single resolve: none, a list that does not
\* hold the file resolved, and the batch.
FreshChangedFiles == { <<>>, <<"tests/test_main.py">>, Batch }

\* get_config_for_file(file_path, changed_files) as the first call on the
\* resolver.
FreshResolve ==
    \E file_path \in FreshFiles, changed_files \in FreshChangedFiles :
    \E o \in GetConfigForFile(fs, enable_path_config, resolution_cache, d_cache,
                              next_id, file_path, changed_files) :
        /\ op = NoOp
        /\ op' = [name |-> "resolve", file_path |-> file_path,
                  changed_files |-> changed_files,
                  hit |-> o.hit, discovery |-> o.discovery, raised |-> o.raised]
        /\ ret' = o.value
        /\ resolution_cache' = o.rcache
        /\ d_cache' = o.dcache
        /\ next_id' = o.next_id
        /\ discovered' = o.configs
        /\ last_returned' = Put(last_returned, file_path, o.value)
        /\ UNCHANGED <<fs, enable_path_config, global_store, writes, probed>>

\* get_config_for_files(file_paths) as the first call on the resolver.
FreshResolveMany ==
    \E file_paths \in FreshBatches :
    \E o \in GetConfigForFiles(fs, enable_path_config, resolution_cache, d_cache,
                               next_id, file_paths) :
        /\ op = NoOp
        /\ op' = [name |-> "resolve_many", file_paths |-> file_paths,
                  fresh |-> { file_paths[i] : i \in 1..Len(file_paths) },
                  discovery |-> o.discovery, raised |-> o.raised]
        /\ ret' = o.value
        /\ resolution_cache' = o.rcache
        /\ d_cache' = o.dcache
        /\ next_id' = o.next_id
        /\ discovered' = o.configs
        /\ UNCHANGED <<fs, enable_path_config, global_store, writes, probed, last_returned>>

\* get_effective_setting(file_path, setting_path, default) as the first call
\* on the resolver.
FreshEffectiveSetting ==
    \E file_path \in FreshFiles, setting_path \in FreshSettingPaths, default \in Defaults :
    \E o \in GetConfigForFile(fs, enable_path_config, resolution_cache, d_cache,
                              next_id, file_path, <<>>) :
        /\ op = NoOp
        /\ op' = [name |-> "effective_setting", file_path |-> file_path,
                  setting_path |-> setting_path, default |-> default,
                  resolved |-> o.value, raised |-> o.raised]
        /\ ret' = EffectiveSettingOf(o.value, global_store, setting_path, default)
        /\ resolution_cache' = o.rcache
        /\ d_cache' = o.dcache
        /\ next_id' = o.next_id
        /\ discovered' = o.configs
        /\ UNCHANGED <<fs, enable_path_config, global_store, writes, probed, last_returned>>

NextFresh == FreshResolve \/ FreshResolveMany \/ FreshEffectiveSetting

SpecFresh == InitFresh /\ [][NextFresh]_vars

(***************************************************************************)
(* Claims about a newly constructed resolver (checked under SpecFresh).    *)
(***************************************************************************)
\* C13: on a newly constructed resolver, resolve_many(files) maps every file
\* F of the batch to a ResolvedConfig with the source_configs and the config
\* map that resolve(F), called alone on a newly constructed resolver over
\* the same disk, returns.
C13_BatchEqualsSingle ==
    op.name = "resolve_many"
    => \A F \in DOMAIN ret :
         \E o \in GetConfigForFile(fs, enable_path_config, <<>>, <<>>, 1, F, <<>>) :
             /\ o.value.source_configs = ret[F].source_configs
             /\ o.value.config = ret[F].config

(***************************************************************************)
(* Claims about the discovery cache key (checked under SpecDiscovery).     *)
(***************************************************************************)
\* C14: a discover_configs call whose changed-file list holds the same set
\* of paths as the list of an earlier call still in the cache, in whatever
\* order and with whatever repetition, uses that call's cache key: it
\* returns the cached list and the discovery cache does not grow.
C14_SameSetSameCacheKey ==
    [][ op'.name = "discover_configs"
        => \A key \in DOMAIN d_cache :
             Range(key) = Range(op'.changed_files)
             => /\ op'.cached
                /\ ret' = d_cache[key]
                /\ d_cache' = d_cache ]_vars

(***************************************************************************)
(* More claims about the merger (checked under SpecMerger).                *)
(***************************************************************************)
\* The key occurs in the map d at some nesting level.
RECURSIVE HasKeyAnywhere(_, _)
HasKeyAnywhere(d, k) ==
    \E key \in DOMAIN d :
        \/ key = k
        \/ d[key].t = "dict" /\ HasKeyAnywhere(d[key].d, k)

\* C15: the map merge_configs returns holds the key _merge_strategy at no
\* nesting level, whatever directives the merged files carry.
C15_NoDirectiveInResult ==
    op.name = "merge_configs" => ~HasKeyAnywhere(ret.value, "_merge_strategy")

\* C18: override validation is for depth > 0 only: a depth-0 config that
\* loads and carries no forbidden directive may set any path, denied ones
\* such as config.model included; merge_configs of it then returns without
\* error and every value the file sets is in the merged map.
C18_RootMaySetAnyPath ==
    (/\ op.name = "merge_configs"
     /\ Len(op.config_files) = 1
     /\ op.config_files[1].depth = 0
     /\ ~LoadFails(fs, op.config_files[1])
     /\ ~HasForbiddenDirective(LoadConfigFile(fs, op.config_files[1])))
    => LET doc == LoadConfigFile(fs, op.config_files[1]) IN
       /\ ret.raised = "none"
       /\ \A path \in FlattenDict(doc, <<>>) :
            /\ LookupParts(D(ret.value), path).found
            /\ LookupParts(D(ret.value), path).value = LookupParts(D(doc), path).value

\* The root config sets config.model over a base_config that sets it too,
\* and the merged map holds the root's value.
C18_Witness ==
    /\ op.name = "merge_configs"
    /\ op.config_files = <<ConfigFileAt(RootConfigPath)>>
    /\ fs[RootConfigPath] = "model"
    /\ op.base_config # EmptyDict
    /\ "config" \in DOMAIN op.base_config
    /\ ret.raised = "none"
    /\ ret.value["config"].d["model"] = S("x")

\* Extend at every nesting level: maps merge key by key, lists present on
\* both sides are concatenated, anything else takes the overlay's value.
RECURSIVE ExtendDeep(_, _)
ExtendDeep(base, overlay) ==
    [key \in DOMAIN base \cup DOMAIN overlay |->
        IF key \notin DOMAIN overlay THEN base[key]
        ELSE IF key \notin DOMAIN base THEN overlay[key]
        ELSE IF overlay[key].t = "dict" /\ base[key].t = "dict"
             THEN D(ExtendDeep(base[key].d, overlay[key].d))
        ELSE IF overlay[key].t = "list" /\ base[key].t = "list"
             THEN L(base[key].l \o overlay[key].l)
        ELSE overlay[key]]

\* C20: a depth-0 config merged onto a non-empty accumulated map is combined
\* with the Extend strategy in every section and at every nesting level,
\* whatever directive it carries: accumulated keys it does not set survive
\* and lists present on both sides are concatenated.
C20_RootExtendsAtEveryLevel ==
    (/\ op.name = "merge_configs"
     /\ Len(op.config_files) = 1
     /\ op.config_files[1].depth = 0
     /\ op.base_config # EmptyDict
     /\ FileException(fs, op.config_files[1]) = "none")
    => ret.value = ExtendDeep(op.base_config, LoadConfigFile(fs, op.config_files[1]))

(***************************************************************************)
(* More claims about the resolver (C16, C19 checked under SpecResolver,    *)
(* C17 under SpecFresh).                                                   *)
(***************************************************************************)
\* The ResolvedConfig rc is the empty one for the file F.
IsEmptyResolved(rc, F) ==
    /\ rc.config = EmptyDict
    /\ rc.source_configs = <<>>
    /\ rc.file_path = F

\* C16: with path-scoped config disabled, resolve and resolve_many return
\* for every requested file a ResolvedConfig with an empty config map and no
\* source configs, without discovery: the discovery cache and the
\* resolution cache are left as they were.
C16_DisabledIsEmptyAndFrameless ==
    [][ (~enable_path_config /\ op'.name \in {"resolve", "resolve_many"})
        => /\ d_cache' = d_cache
           /\ resolution_cache' = resolution_cache
           /\ op'.discovery = "none"
           /\ op'.name = "resolve" => IsEmptyResolved(ret', op'.file_path)
           /\ op'.name = "resolve_many"
              => /\ DOMAIN ret' = Range(op'.file_paths)
                 /\ \A F \in DOMAIN ret' : IsEmptyResolved(ret'[F], F) ]_vars

\* A disabled resolver answered a batch over a repository that has a root
\* config.
C16_Witness ==
    /\ ~enable_path_config
    /\ op.name = "resolve_many"
    /\ fs[RootConfigPath] # "none"
    /\ Cardinality(DOMAIN ret) = 2
    /\ d_cache = <<>>

\* The lower-case form of the keys the documents use.
LowerKey(k) ==
    CASE k = "PR_REVIEWER" -> "pr_reviewer"
      [] k = "NUM_MAX_FINDINGS" -> "num_max_findings"
      [] OTHER -> k

\* The values a lookup that ignores letter case finds at `parts`.
RECURSIVE ValuesIgnoringCase(_, _)
ValuesIgnoringCase(current, parts) ==
    IF parts = <<>> THEN {current}
    ELSE IF current.t # "dict" THEN {}
    ELSE UNION { ValuesIgnoringCase(current.d[k], Tail(parts))
                 : k \in { key \in DOMAIN current.d : LowerKey(key) = LowerKey(Head(parts)) } }

\* C17: the lookup effective_setting makes in the resolved config ignores
\* letter case, in the requested path and in the section and key names of
\* the config file: when the resolved config holds the setting under some
\* spelling, that value is returned.
C17_LookupIgnoresCase ==
    op.name = "effective_setting"
    => LET found == ValuesIgnoringCase(D(op.resolved.config),
                                       SettingEntry(op.setting_path).parts)
       IN found # {} => ret \in found

\* merge_configs as a left fold over the files in the order given, a file
\* that raises leaving the accumulated map as it is.
RECURSIVE FoldInOrder(_, _, _)
FoldInOrder(disk, files, acc) ==
    IF files = <<>> THEN acc
    ELSE LET f == Head(files) IN
         FoldInOrder(disk, Tail(files),
                     IF FileException(disk, f) = "none"
                     THEN MergeDict(acc, LoadConfigFile(disk, f), f.depth = 0)
                     ELSE acc)

AllowedArgs == { <<>>, << <<"custom", "setting">> >>, << <<"config">> >> }

\* denied_overrides arguments: none, and lists like the one of
\* test_custom_denied_overrides.
DeniedArgs == { <<>>, << <<"custom", "forbidden">> >>, << <<"custom">> >> }

\* Documents of a src/ config that touch the config section without setting
\* a denied leaf.
PolicyDocNames == { "configOther", "configScalar", "configEmptyModel" }

InitPolicy ==
    /\ \E root_doc \in {"none", "rootAB", "model"},
          src_doc \in DocNames \cup PolicyDocNames \cup {"none"} :
           fs = Disk(root_doc, src_doc, "none", "none")
    /\ enable_path_config = TRUE
    /\ d_cache = <<>>
    /\ resolution_cache = <<>>
    /\ next_id = 1
    /\ global_store = <<>>
    /\ writes = 0
    /\ op = NoOp
    /\ ret = <<>>
    /\ probed = {}
    /\ discovered = <<>>
    /\ last_returned = <<>>

\* ConfigMerger(repo_root, allowed_overrides=..., denied_overrides=...)
\*   ._validate_overrides(config_data, config_file), config_data being the
\* document loaded from config_file.
CallValidateOverrides ==
    \E allowed_overrides \in AllowedArgs, denied_overrides \in DeniedArgs :
    \E config_file \in { ConfigFileAt(SrcConfigPath) } :
        /\ op = NoOp
        /\ ~LoadFails(fs, config_file)
        /\ op' = [name |-> "_validate_overrides", config_file |-> config_file,
                  allowed_overrides |-> OverridesOrDefault(allowed_overrides,
                                                          DEFAULT_ALLOWED_OVERRIDES),
                  denied_overrides |-> OverridesOrDefault(denied_overrides,
                                                         DENIED_OVERRIDES)]
        /\ ret' = ValidateOverrides(LoadConfigFile(fs, config_file),
                                    OverridesOrDefault(allowed_overrides,
                                                       DEFAULT_ALLOWED_OVERRIDES),
                                    OverridesOrDefault(denied_overrides, DENIED_OVERRIDES))
        /\ UNCHANGED <<fs, enable_path_config, d_cache, resolution_cache, next_id,
                       global_store, writes, probed, discovered, last_returned>>

NextPolicy == CallMergeConfigs \/ CallValidateOverrides

SpecPolicy == InitPolicy /\ [][NextPolicy]_vars

(***************************************************************************)
(* State machine, part 6: two callers sharing one ConfigResolver, each     *)
(* inside get_config_for_file at a position of its own.  Here op and ret   *)
(* hold, per caller, the call in progress and the value last returned.     *)
(***************************************************************************)
Callers == { "a", "b" }

\* A caller's frame: where it stands in get_config_for_file, the file_path
\* argument, the list discover_configs gave it, and whether its last call
\* was answered from the resolution cache.
Frame(pc, file_path, all_configs, hit) ==
    [pc |-> pc, file_path |-> file_path, all_configs |-> all_configs, hit |-> hit]

InitShared ==
    /\ \E root_doc \in SlotDocs(RootConfigPath), src_doc \in SlotDocs(SrcConfigPath),
          tests_doc \in SlotDocs(TestsConfigPath) :
           fs = Disk(root_doc, src_doc, "none", tests_doc)
    /\ enable_path_config = TRUE
    /\ global_store = <<>>
    /\ d_cache = <<>>
    /\ resolution_cache = <<>>
    /\ next_id = 1
    /\ writes = 0
    /\ op = [c \in Callers |-> Frame("idle", "", <<>>, FALSE)]
    /\ ret = [c \in Callers |-> <<>>]
    /\ probed = {}
    /\ discovered = <<>>
    /\ last_returned = <<>>

\* A caller enters get_config_for_file(file_path) and looks the path up in
\* the resolution cache: a hit returns the cached object; after a miss the
\* caller goes on to discovery (the resolver has path config enabled).
EnterAndLookup(c) ==
    \E file_path \in ResolverFiles :
        /\ op[c].pc = "idle"
        /\ IF file_path \in DOMAIN resolution_cache
           THEN /\ op' = [op EXCEPT ![c] = Frame("idle", file_path, <<>>, TRUE)]
                /\ ret' = [ret EXCEPT ![c] = resolution_cache[file_path]]
                /\ last_returned' =
                     IF file_path \in DOMAIN last_returned THEN last_returned
                     ELSE Put(last_returned, file_path, resolution_cache[file_path])
           ELSE /\ op' = [op EXCEPT ![c] = Frame("discover", file_path, <<>>, FALSE)]
                /\ UNCHANGED <<ret, last_returned>>
        /\ UNCHANGED <<fs, enable_path_config, d_cache, resolution_cache, next_id,
                       global_store, writes, probed, discovered>>

\* The caller is in discover_configs and looks its key up in the discovery
\* cache: a hit is the list it goes on with.
DiscoverLookup(c) ==
    LET cache_key == GenerateCacheKey(<<op[c].file_path>>) IN
    /\ op[c].pc = "discover"
    /\ op' = [op EXCEPT ![c] =
                IF cache_key \in DOMAIN d_cache
                THEN Frame("merge", op[c].file_path, d_cache[cache_key], FALSE)
                ELSE Frame("walk", op[c].file_path, <<>>, FALSE)]
    /\ UNCHANGED <<fs, enable_path_config, d_cache, resolution_cache, next_id,
                   global_store, writes, ret, probed, discovered, last_returned>>

\* The caller runs _discover_configs_uncached and stores the list.
DiscoverWalk(c) ==
    /\ op[c].pc = "walk"
    /\ \E configs \in DiscoverConfigsUncached(fs, <<op[c].file_path>>) :
        /\ d_cache' = Put(d_cache, GenerateCacheKey(<<op[c].file_path>>), configs)
        /\ op' = [op EXCEPT ![c] = Frame("merge", op[c].file_path, configs, FALSE)]
        /\ UNCHANGED <<fs, enable_path_config, resolution_cache, next_id,
                       global_store, writes, ret, probed, discovered, last_returned>>

\* The caller filters and merges, constructs the ResolvedConfig, stores it in
\* the resolution cache and returns it.
MergeAndStore(c) ==
    LET o == ResolveWith(fs, resolution_cache, d_cache, next_id, op[c].file_path,
                         op[c].all_configs, "fresh")
    IN
    /\ op[c].pc = "merge"
    /\ o.next_id <= MaxObjs + 1
    /\ op' = [op EXCEPT ![c] = Frame("idle", op[c].file_path, op[c].all_configs, FALSE)]
    /\ ret' = [ret EXCEPT ![c] = o.value]
    /\ resolution_cache' = o.rcache
    /\ next_id' = o.next_id
    /\ last_returned' =
         IF op[c].file_path \in DOMAIN last_returned THEN last_returned
         ELSE Put(last_returned, op[c].file_path, o.value)
    /\ UNCHANGED <<fs, enable_path_config, d_cache, global_store, writes, probed,
                   discovered>>

NextShared ==
    \E c \in Callers :
        \/ EnterAndLookup(c)
        \/ DiscoverLookup(c)
        \/ DiscoverWalk(c)
        \/ MergeAndStore(c)

SpecShared == InitShared /\ [][NextShared]_vars

(***************************************************************************)
(* Claims about merge strategies and policy (checked under SpecMerger).    *)
(***************************************************************************)
\* The strategy a section of a depth > 0 config asks for: the value of its
\* _merge_strategy directive, Override when it carries none.
SectionStrategy(section) ==
    IF "_merge_strategy" \in DOMAIN section.d
    THEN section.d["_merge_strategy"].s
    ELSE "override"

\* The merge_configs call ended by folding a depth > 0 file that loaded and
\* passed validation.
LastIsDeeperAndMerged ==
    /\ op.name = "merge_configs"
    /\ op.config_files # <<>>
    /\ op.config_files[Len(op.config_files)].depth > 0
    /\ FileException(fs, op.config_files[Len(op.config_files)]) = "none"

\* The map accumulated before the last file of the call was folded.
AccumulatedBeforeLast ==
    MergeConfigs(fs, SubSeq(op.config_files, 1, Len(op.config_files) - 1),
                 op.base_config).value

\* The document of the last file of the call.
LastDoc == LoadConfigFile(fs, op.config_files[Len(op.config_files)])

\* C21: when a section of a depth > 0 config carries _merge_strategy =
\* "extend" and a key of it holds a list in the accumulated map and in the
\* incoming section, the merged value is the accumulated list followed by the
\* incoming one; under Override or Inherit the incoming list replaces it.
C21_SectionListsFollowStrategy ==
    LastIsDeeperAndMerged
    => \A section \in DOMAIN LastDoc \cap DOMAIN AccumulatedBeforeLast :
         (LastDoc[section].t = "dict" /\ AccumulatedBeforeLast[section].t = "dict")
         => \A key \in DOMAIN LastDoc[section].d \cap DOMAIN AccumulatedBeforeLast[section].d :
              LET incoming == LastDoc[section].d[key]
                  accumulated == AccumulatedBeforeLast[section].d[key]
              IN (incoming.t = "list" /\ accumulated.t = "list")
                 => ret.value[section].d[key] =
                      IF SectionStrategy(LastDoc[section]) = "extend"
                      THEN L(accumulated.l \o incoming.l)
                      ELSE incoming

\* The types of the issues of the list that name the file.
IssueTypesFor(issues, config_file) ==
    { issues[i].type : i \in IssuesFor(issues, config_file) }

\* C22: in the issues validate_config_consistency returns, a file has an
\* issue of type load_error exactly when it could not be loaded or parsed,
\* and one of type security_violation exactly when it failed a security
\* check: a forbidden dynamic-include directive at any depth, or a denied
\* leaf at depth > 0.
C22_IssueTypeTellsTheFailure ==
    op.name = "validate_config_consistency"
    => \A i \in DOMAIN op.config_files :
         LET config_file == op.config_files[i] IN
         /\ "load_error" \in IssueTypesFor(ret, config_file)
              <=> LoadFails(fs, config_file)
         /\ "security_violation" \in IssueTypesFor(ret, config_file)
              <=> \/ HoldsForbiddenDirective(fs, config_file)
                  \/ config_file.depth > 0 /\ SetsDeniedLeaf(fs, config_file)

(***************************************************************************)
(* Claims about changed files that do not exist, depths and file names     *)
(* (checked under SpecDiscovery).                                          *)
(***************************************************************************)
\* The configs a walk started at the parent directory of the file finds: the
\* walk made for a changed file that exists.
WalkUpFromParent(disk, file_path) ==
    { FindConfigAtPath(disk, d) : d \in Range(WalkDirs(Parent(file_path), 0)) } \ {NoConfig}

\* The set discovery collects when every changed file is handled through its
\* parent directory.
DiscoveredThroughParents(disk, changed_files) ==
    ({FindConfigAtPath(disk, repo_root)} \ {NoConfig})
      \cup UNION { WalkUpFromParent(disk, JoinRoot(changed_files[i]))
                   : i \in DOMAIN changed_files }

\* C23: a changed file that does not exist on disk is handled through its
\* intended parent directory: discover_configs returns (it has no way to
\* raise) the configs it returns when the changed file exists, that is, those
\* of a walk started at the file's parent directory.
C23_MissingFileLikeExisting ==
    (op.name = "discover_configs" /\ ~op.cached)
    => ret \in SortedByDepth(DiscoveredThroughParents(fs, op.changed_files))

\* The directory that really contains the config file c.
RealDirOf(c) == RealPath(Parent(c.path))

\* C24: every ConfigFile discover_configs returns has a depth equal to the
\* number of directory levels between the repository root and the directory
\* that really contains the file; a config of the root directory has depth
\* 0, whatever changed-file path led to it.
C24_DepthIsLevelsBelowRoot ==
    op.name = "discover_configs"
    => \A i \in DOMAIN ret :
         /\ ret[i].depth = Len(RealDirOf(ret[i])) - Len(repo_root)
         /\ RealDirOf(ret[i]) = repo_root => ret[i].depth = 0

\* The position of the file name in the precedence order.
NameRank(name) == CHOOSE i \in 1..Len(CONFIG_FILENAMES) : CONFIG_FILENAMES[i] = name

\* The name of the config file c.
NameOf(c) == c.path[Len(c.path)]

\* C25: discover_configs returns at most one ConfigFile per directory, and
\* when several supported file names exist in a directory it is the one that
\* comes first in the precedence order .pr_agent.toml, pr_agent.toml,
\* .pr-agent.toml.
C25_OnePerDirectoryFirstNameWins ==
    op.name = "discover_configs"
    => /\ \A i, j \in DOMAIN ret :
            i # j => RealDirOf(ret[i]) # RealDirOf(ret[j])
       /\ \A i \in DOMAIN ret :
            \A n \in 1..Len(CONFIG_FILENAMES) :
              IsFile(fs, Append(Parent(ret[i].path), CONFIG_FILENAMES[n]))
              => NameRank(NameOf(ret[i])) <= n

(***************************************************************************)
(* More claims about merge strategies and policy (checked under            *)
(* SpecMerger).                                                            *)
(***************************************************************************)
\* The section carries a _merge_strategy directive whose value is none of
\* override, extend, inherit.
HasUnrecognizedDirective(section) ==
    /\ section.t = "dict"
    /\ "_merge_strategy" \in DOMAIN section.d
    /\ ~(/\ section.d["_merge_strategy"].t = "scalar"
         /\ section.d["_merge_strategy"].s \in MERGE_STRATEGIES)

\* C26: a _merge_strategy directive whose value is not one of override,
\* extend, inherit never makes merge_configs fail, and the section of a
\* depth > 0 config that carries it is combined as under the default
\* Override strategy: the deeper section replaces the accumulated one.
C26_UnrecognizedDirectiveIsOverride ==
    /\ (/\ op.name = "merge_configs"
        /\ \E i \in DOMAIN op.config_files :
             /\ ~LoadFails(fs, op.config_files[i])
             /\ \E section \in DOMAIN LoadConfigFile(fs, op.config_files[i]) :
                  HasUnrecognizedDirective(LoadConfigFile(fs, op.config_files[i])[section]))
       => ret.raised = "none"
    /\ LastIsDeeperAndMerged
       => \A section \in DOMAIN LastDoc :
            HasUnrecognizedDirective(LastDoc[section])
            => /\ section \in DOMAIN ret.value
               /\ ret.value[section] = LastDoc[section]

\* A src/ config whose pr_reviewer section carries an unrecognized directive
\* was merged onto a root config with a pr_reviewer section: the root's
\* num_max_findings is gone from the result.
C26_Witness ==
    /\ op.name = "merge_configs"
    /\ op.config_files = <<ConfigFileAt(RootConfigPath), ConfigFileAt(SrcConfigPath)>>
    /\ fs[RootConfigPath] = "rootAB"
    /\ fs[SrcConfigPath] = "bogus"
    /\ ret.raised = "none"
    /\ ret.value["pr_reviewer"].d["extra_instructions"] = S("test")
    /\ "num_max_findings" \notin DOMAIN ret.value["pr_reviewer"].d

(***************************************************************************)
(* Claims about the override policy (checked under SpecPolicy).            *)
(***************************************************************************)
\* C27: a leaf path set by a depth > 0 config that is covered by no allowed
\* prefix and starts with no denied prefix does not fail the merge: the file
\* (which sets no denied leaf) is merged and the value is in the merged map;
\* and validation raises exactly when some leaf starts with a denied prefix,
\* so for a path covered by an allowed and by a denied prefix the denial wins.
C27_UnlistedAppliedDeniedWins ==
    /\ LastIsDeeperAndMerged
       => /\ ret.raised = "none"
          /\ \A key_path \in FlattenDict(LastDoc, <<>>) :
               (/\ ~IsAllowed(key_path, DEFAULT_ALLOWED_OVERRIDES)
                /\ ~IsDenied(key_path, DENIED_OVERRIDES))
               => /\ LookupParts(D(ret.value), key_path).found
                  /\ LookupParts(D(ret.value), key_path).value
                       = LookupParts(D(LastDoc), key_path).value
    /\ op.name = "_validate_overrides"
       => LET flat == FlattenDict(LoadConfigFile(fs, op.config_file), <<>>) IN
          /\ \A key_path \in flat :
               (/\ IsAllowed(key_path, op.allowed_overrides)
                /\ IsDenied(key_path, op.denied_overrides))
               => ret.raised = "SecurityError"
          /\ (\A key_path \in flat : ~IsDenied(key_path, op.denied_overrides))
               => ret.raised = "none"

\* A src/ config setting custom.setting, a path on neither default list, was
\* merged after the root config: the value is in the result.
C27_Witness ==
    /\ op.name = "merge_configs"
    /\ op.config_files = <<ConfigFileAt(RootConfigPath), ConfigFileAt(SrcConfigPath)>>
    /\ fs[RootConfigPath] = "rootAB"
    /\ fs[SrcConfigPath] = "custom"
    /\ ret.raised = "none"
    /\ "custom" \in DOMAIN ret.value
    /\ ret.value["custom"].d["setting"] = S("1")
    /\ "pr_reviewer" \in DOMAIN ret.value

(***************************************************************************)
(* Claims about callers sharing a resolver (checked under SpecShared).     *)
(***************************************************************************)
\* The caller's last call has returned a ResolvedConfig.
HasReturned(c) == op[c].pc = "idle" /\ ret[c] # <<>>

\* C28 as stated: the lookup-then-insert on the resolution cache is atomic
\* for callers that interleave on a shared resolver: discovery and merge run
\* at most once per file (no more objects are constructed than files are
\* cached), and callers that resolved the same file hold the same object.
C28_LookupThenInsertAtomic ==
    /\ next_id - 1 <= Cardinality(DOMAIN resolution_cache)
    /\ \A c1, c2 \in Callers :
         (HasReturned(c1) /\ HasReturned(c2) /\ op[c1].file_path = op[c2].file_path)
         => ret[c1] = ret[c2]

\* C28: the cache maps are not guarded.  A call that finds the file in the
\* resolution cache returns the cached object, so calls that do not overlap
\* share one object; a call that missed the cache merges, constructs a new
\* object and stores it over whatever another caller stored meanwhile; and
\* whatever the interleaving, callers that resolved the same file hold
\* results with the same source_configs and config map, those of the cached
\* one.
C28_UnguardedButEqualResults ==
    [][ \A c \in Callers :
          LET F == op'[c].file_path IN
          /\ (op'[c].pc = "idle" /\ op'[c].hit /\ (ret'[c] # ret[c] \/ op'[c] # op[c]))
             => ret'[c] = resolution_cache[F]
          /\ (op[c].pc = "merge" /\ op'[c].pc = "idle")
             => /\ ret'[c].id = next_id
                /\ F \in DOMAIN resolution_cache'
                /\ resolution_cache'[F] = ret'[c]
          /\ (op'[c].pc = "idle" /\ ret'[c] # <<>>)
             => /\ F \in DOMAIN resolution_cache'
                /\ ret'[c].source_configs = resolution_cache'[F].source_configs
                /\ ret'[c].config = resolution_cache'[F].config ]_vars

\* Both callers resolved src/main.py, each missed the cache and merged: they
\* hold two objects with the same non-empty sources, and the cache holds the
\* second.
C28_Witness ==
    /\ HasReturned("a") /\ HasReturned("b")
    /\ op["a"].file_path = "src/main.py"
    /\ op["b"].file_path = "src/main.py"
    /\ ret["a"].id = 1
    /\ ret["b"].id = 2
    /\ ret["a"].source_configs = ret["b"].source_configs
    /\ ret["a"].source_configs # <<>>
    /\ resolution_cache["src/main.py"] = ret["b"]

(***************************************************************************)
(* Claims about the changed_files argument (checked under SpecFresh).      *)
(***************************************************************************)
\* C30: what resolve(F, changed_files) returns on a newly constructed
\* resolver, and caches under F, does not depend on changed_files: whatever
\* the list, with or without F in it, the source_configs and the config map
\* are those of resolve(F) without changed_files over the same disk.
C30_IndependentOfChangedFiles ==
    op.name = "resolve"
    => /\ enable_path_config
          => /\ op.file_path \in DOMAIN resolution_cache
             /\ resolution_cache[op.file_path] = ret
       /\ \E o \in GetConfigForFile(fs, enable_path_config, <<>>, <<>>, 1,
                                    op.file_path, <<>>) :
            /\ o.value.source_configs = ret.source_configs
            /\ o.value.config = ret.config

\* The configs of the list that sit in the repository root.
RootConfigsOf(config_files) ==
    LET IsRoot(c) == c.depth = 0 IN SelectSeq(config_files, IsRoot)

\* C29: a depth > 0 config can never change or remove the value shallower
\* configs established at a denied path: when no file of the list fails with
\* a security error, the value at each denied path in the map merge_configs
\* returns is the value after folding the depth-0 configs alone, whatever
\* else the deeper configs set in the same section.
C29_DeniedPathsKeepRootValue ==
    (/\ op.name = "merge_configs"
     /\ \A i \in DOMAIN op.config_files :
          FileException(fs, op.config_files[i]) # "SecurityError")
    => /\ ret.raised = "none"
       /\ \A i \in DOMAIN DENIED_OVERRIDES :
            LookupParts(D(ret.value), DENIED_OVERRIDES[i])
              = LookupParts(D(MergeConfigs(fs, RootConfigsOf(op.config_files),
                                           op.base_config).value),
                            DENIED_OVERRIDES[i])

====
